---- MODULE Spec2Model ----
(***************************************************************************)
(* Model of the C++ side of tensorrt-rs-sys (cxx/src/logger.cpp,           *)
(* cxx/src/runtime.cpp, cxx/include/runtime.h): the Logger adapter over    *)
(* spdlog, and the Runtime / CudaEngine / ExecutionContext adapters over   *)
(* the TensorRT objects they own.  The adapters are forwarding shims; the  *)
(* vendor objects they forward to (spdlog's level filter, the TensorRT     *)
(* runtime, engine and execution context) are modelled by the operators    *)
(* whose names start with Native or Spd, from their documented contract.   *)
(***************************************************************************)
EXTENDS Integers, Sequences, FiniteSets, TLC

VARIABLES
    level,      \* spdlog's process-global minimum level
    sink,       \* what reached spdlog's output sink, oldest first
    filter,     \* history: the last defined severity given to set_level, if any
    objs,       \* native objects ever constructed: [kind, parent, alive]
    adapters,   \* adapter objects ever constructed: [kind, ptr, alive]
    cfg,        \* native execution-context state, by native object id
    accepted,   \* history: per context, the dims of the last accepted set_input_shape
    crashed,    \* the process was aborted
    last        \* the last adapter call: its arguments and what it returned

vars == <<level, sink, filter, objs, adapters, cfg, accepted, crashed, last>>

\* ------------------------------------------------------------------ bounds
NumLoggers == 2     \* Logger instances that call log / set_level
MaxSink == 2        \* messages kept in the sink
MaxObjects == 5     \* native objects constructed in one run
MaxLen == 9         \* longest dims slice handed to set_input_shape
MaxAddr == 1        \* device addresses are 0 (null) .. MaxAddr
MaxStream == 1      \* stream handles are 0 .. MaxStream
MaxLimit == 1       \* persistent-cache limits are 0 .. MaxLimit

Null == 0
\* An absent value, and a present one.
Unset == <<>>
Some(x) == <<x>>

Min(a, b) == IF a < b THEN a ELSE b
Max(a, b) == IF a > b THEN a ELSE b

\* ------------------------------------------------------------------ Logger
\* nvinfer1::ILogger::Severity, most severe first.
kINTERNAL_ERROR == 0
kERROR == 1
kWARNING == 2
kINFO == 3
kVERBOSE == 4
Severities == kINTERNAL_ERROR .. kVERBOSE
\* int32_t severities a caller can pass: the defined ones and one on each side.
SeverityInputs == (kINTERNAL_ERROR - 1) .. (kVERBOSE + 1)

\* spdlog::level::level_enum.
SpdTrace == 0
SpdDebug == 1
SpdInfo == 2
SpdWarn == 3
SpdErr == 4
SpdCritical == 5
SpdOff == 6

\* spdlog::logger::should_log: a message passes when its level reaches the
\* logger's level.
SpdShouldLog(msgLevel, cur) == msgLevel >= cur

\* Mutant: warnings are routed to spdlog::info.
LogLevelOf_WarnAsInfo(severity) ==
    CASE severity = kINTERNAL_ERROR -> SpdCritical
      [] severity = kERROR -> SpdErr
      [] severity = kWARNING -> SpdInfo
      [] severity = kINFO -> SpdInfo
      [] severity = kVERBOSE -> SpdDebug
      [] OTHER -> SpdDebug

\* Logger::log: the spdlog call each case of the switch makes.
LogLevelOf(severity) ==
    CASE severity = kINTERNAL_ERROR -> SpdCritical
      [] severity = kERROR -> SpdErr
      [] severity = kWARNING -> SpdWarn
      [] severity = kINFO -> SpdInfo
      [] severity = kVERBOSE -> SpdDebug
      [] OTHER -> SpdDebug

\* Mutant: the default case switches logging off.
SetLevelOf_DefaultOff(severity, cur) ==
    CASE severity = kINTERNAL_ERROR -> SpdCritical
      [] severity = kERROR -> SpdErr
      [] severity = kWARNING -> SpdWarn
      [] severity = kINFO -> SpdInfo
      [] severity = kVERBOSE -> SpdDebug
      [] OTHER -> SpdOff

\* Logger::set_level: the level spdlog holds after the switch, cur before it.
SetLevelOf(severity, cur) ==
    CASE severity = kINTERNAL_ERROR -> SpdCritical
      [] severity = kERROR -> SpdErr
      [] severity = kWARNING -> SpdWarn
      [] severity = kINFO -> SpdInfo
      [] severity = kVERBOSE -> SpdDebug
      [] OTHER -> cur

Loggers == 1 .. NumLoggers

UnchangedRuntime == UNCHANGED <<objs, adapters, cfg, accepted, crashed>>
UnchangedLogger == UNCHANGED <<level, sink, filter>>

InitLogger ==
    /\ level = SpdInfo
    /\ sink = <<>>
    /\ filter = Unset

\* Logger::log(int32_t, rust::Str) -> Logger::log(Severity, const char*).
Log(lg, severity) ==
    /\ ~crashed
    /\ Len(sink) < MaxSink
    /\ LET msgLevel == LogLevelOf(severity)
           out == IF SpdShouldLog(msgLevel, level)
                  THEN Append(sink, [level |-> msgLevel, logger |-> lg])
                  ELSE sink
       IN /\ sink' = out
          /\ last' = [op |-> "log", logger |-> lg, severity |-> severity,
                      emitted |-> (out # sink), filter |-> filter]
    /\ UNCHANGED <<level, filter>>
    /\ UnchangedRuntime

\* Logger::set_level(int32_t).
SetLevel(lg, severity) ==
    /\ ~crashed
    /\ level' = SetLevelOf(severity, level)
    /\ filter' = IF severity \in Severities THEN Some(severity) ELSE filter
    /\ last' = [op |-> "set_level", logger |-> lg, severity |-> severity,
                before |-> level]
    /\ UNCHANGED sink
    /\ UnchangedRuntime

NextLogger ==
    \/ \E lg \in Loggers, s \in SeverityInputs : Log(lg, s)
    \/ \E lg \in Loggers, s \in SeverityInputs : SetLevel(lg, s)

\* ------------------------------------------------------------------ lifecycle
NoCall == [op |-> "none"]

IsAlive(a) == a \in DOMAIN adapters /\ adapters[a].alive /\ adapters[a].ptr # Null
AliveOf(kind) == {a \in DOMAIN adapters : IsAlive(a) /\ adapters[a].kind = kind}

\* Mutant: the null check is dropped, the adapter is built around any pointer.
MakeAdapter_NoNullCheck(kind, ptr) ==
    <<[kind |-> kind, ptr |-> ptr, alive |-> TRUE]>>

\* if (!p) return nullptr; else return std::make_unique<T>(std::unique_ptr<N>(p));
\* the adapters the factory adds.
MakeAdapter(kind, ptr) ==
    IF ptr = Null THEN <<>>
    ELSE <<[kind |-> kind, ptr |-> ptr, alive |-> TRUE]>>

\* The native constructor: a fresh object, or null.
NativeNew(ok) == IF ok THEN Len(objs) + 1 ELSE Null

\* Byte buffers handed to deserialize.
Buffers == {"plan", "corrupt"}
\* IRuntime::deserializeCudaEngine rejects a malformed blob; a well-formed one
\* can still fail to allocate.
NativeDeserializeOk(data, ok) == data = "plan" /\ ok

\* The deserialized engine: one input and one output tensor of rank 2 whose
\* first extent is dynamic, and one range of input extents per profile.
InputNames == {"in"}
TensorNames == {"in", "out"}
\* Tensor names a caller can pass: the engine's and one it does not have.
NameInputs == TensorNames \cup {"bad"}
EngineShape == <<-1, 2>>
ProfileMin == <<1, 2>>
ProfileMax == <<2, 2>>
EngineProfiles == {0, 1}

\* Native defaults of a new execution context.
NativeNewContext(withMemory) ==
    [shape |-> [n \in InputNames |-> Unset], addr |-> [t \in TensorNames |-> Null],
     profile |-> 0,
     debugSync |-> FALSE, emitsProfile |-> TRUE, cacheLimit |-> 0, name |-> "",
     deviceMemory |-> withMemory]

Factory(op, arg, kind, parentAdapter, ptr, withMemory) ==
    /\ ~crashed
    /\ Len(objs) < MaxObjects
    /\ LET made == MakeAdapter(kind, ptr)
       IN /\ objs' = IF ptr = Null THEN objs
                     ELSE Append(objs, [kind |-> kind,
                                        parent |-> IF parentAdapter = Null THEN Null
                                                   ELSE adapters[parentAdapter].ptr,
                                        alive |-> TRUE])
          /\ adapters' = adapters \o made
          /\ cfg' = IF kind = "context" /\ ptr # Null
                    THEN [c \in DOMAIN cfg \cup {ptr} |->
                            IF c = ptr THEN NativeNewContext(withMemory) ELSE cfg[c]]
                    ELSE cfg
          /\ accepted' = IF kind = "context" /\ made # <<>>
                         THEN [a \in DOMAIN accepted \cup {Len(adapters) + 1} |->
                                 IF a \in DOMAIN accepted THEN accepted[a]
                                 ELSE [n \in InputNames |-> Unset]]
                         ELSE accepted
          /\ last' = [op |-> op, arg |-> arg, native |-> ptr,
                      ret |-> IF made = <<>> THEN Null ELSE Len(adapters) + 1,
                      before |-> Len(adapters)]
    /\ UNCHANGED crashed
    /\ UnchangedLogger

\* create_logger(): std::make_unique<Logger>(); the Logger is the native ILogger.
CreateLogger ==
    Factory("create_logger", "", "logger", Null, Len(objs) + 1, FALSE)

\* create_runtime(Logger&).
CreateRuntime(lg, ok) ==
    /\ IsAlive(lg) /\ adapters[lg].kind = "logger"
    /\ Factory("create_runtime", "", "runtime", lg, NativeNew(ok), FALSE)

\* Runtime::deserialize(data).
Deserialize(rt, data, ok) ==
    /\ IsAlive(rt) /\ adapters[rt].kind = "runtime"
    /\ Factory("deserialize", data, "engine", rt, NativeNew(NativeDeserializeOk(data, ok)), FALSE)

\* CudaEngine::create_execution_context().
CreateExecutionContext(en, ok) ==
    /\ IsAlive(en) /\ adapters[en].kind = "engine"
    /\ Factory("create_execution_context", "", "context", en, NativeNew(ok), TRUE)

\* CudaEngine::create_execution_context_without_device_memory().
CreateExecutionContextWithoutDeviceMemory(en, ok) ==
    /\ IsAlive(en) /\ adapters[en].kind = "engine"
    /\ Factory("create_execution_context_without_device_memory", "", "context", en,
               NativeNew(ok), FALSE)

\* Dropping an adapter value: its std::unique_ptr member deletes the native
\* object it holds.  Nothing in the adapter refers to the object it was made from.
Drop(a) ==
    /\ ~crashed
    /\ IsAlive(a)
    /\ adapters' = [adapters EXCEPT ![a].alive = FALSE]
    /\ objs' = [objs EXCEPT ![adapters[a].ptr].alive = FALSE]
    /\ last' = [op |-> "drop", adapter |-> a]
    /\ UNCHANGED <<cfg, accepted, crashed>>
    /\ UnchangedLogger

InitLife ==
    /\ InitLogger
    /\ objs = <<>>
    /\ adapters = <<>>
    /\ cfg = <<>>
    /\ accepted = <<>>
    /\ crashed = FALSE
    /\ last = NoCall

NextLife ==
    \/ CreateLogger
    \/ \E lg \in DOMAIN adapters, ok \in BOOLEAN : CreateRuntime(lg, ok)
    \/ \E rt \in DOMAIN adapters, data \in Buffers, ok \in BOOLEAN : Deserialize(rt, data, ok)
    \/ \E en \in DOMAIN adapters, ok \in BOOLEAN : CreateExecutionContext(en, ok)
    \/ \E en \in DOMAIN adapters, ok \in BOOLEAN :
          CreateExecutionContextWithoutDeviceMemory(en, ok)
    \/ \E a \in DOMAIN adapters : Drop(a)

SpecLife == InitLife /\ [][NextLife]_vars

InitLog == InitLife
SpecLogger == InitLog /\ [][NextLogger]_vars

\* ------------------------------------------------------------------ Dims
\* nvinfer1::Dims::MAX_DIMS, the capacity of Dims::d.
MAX_DIMS == 8

\* Dims slices a caller can pass to set_input_shape: every length up to MaxLen,
\* the first two extents drawn from Extents, the others 1.
Extents == {-1, 1, 2, 3}
DimsInputs ==
    {[i \in 1 .. n |-> IF i = 1 THEN e1 ELSE IF i = 2 THEN e2 ELSE 1] :
        n \in 0 .. MaxLen, e1 \in Extents, e2 \in Extents}

\* set_input_shape: nbDims = dims.size(); d[i] = dims[i] for i < nb_dims.  The
\* entries of d inside the array that the loop wrote; the others are not set.
ToDims(dims) ==
    [nbDims |-> Len(dims),
     d |-> [i \in 1 .. Min(Len(dims), MAX_DIMS) |-> dims[i]]]

\* The indices (from 0) the loop of set_input_shape writes d[i] at.
WrittenIndices(dims) == {i \in 0 .. MaxLen : i < Len(dims)}

\* Mutant: the loop stops one element early.
FromDims_OffByOne(D) ==
    [i \in 1 .. Max(D.nbDims - 1, 0) |-> D.d[i]]

\* get_tensor_shape / get_tensor_strides: push_back(dims.d[i]) for i < nbDims.
FromDims(D) ==
    [i \in 1 .. Max(D.nbDims, 0) |-> D.d[i]]

\* rust::Vec<int32_t>::reserve(dims.nbDims): nbDims converts to std::size_t, so
\* a negative rank asks for at least 2^64 - 2^31 elements; Vec::reserve panics
\* with a capacity overflow above isize::MAX bytes and the panic, inside an
\* extern "C" function, aborts the process.
ReserveReturns(nbDims) == nbDims >= 0

\* ------------------------------------------------------------------ native context
HasDynamic(s) == \E i \in DOMAIN s : s[i] = -1

\* IExecutionContext::setInputShape: accepted for an input tensor when the
\* rank is the tensor's and every extent lies in the profile's range.
NativeSetInputShape(c, name, D) ==
    LET ok == /\ name \in InputNames
              /\ D.nbDims = Len(EngineShape)
              /\ \A i \in 1 .. D.nbDims : ProfileMin[i] <= D.d[i] /\ D.d[i] <= ProfileMax[i]
    IN [ret |-> ok, cfg |-> IF ok THEN [c EXCEPT !.shape[name] = Some(D.d)] ELSE c]

\* The shape a context resolves for a tensor: the input's shape once set, the
\* engine's (with -1) before; the output has the input's shape.
NativeResolved(c, name) ==
    IF c.shape["in"] = Unset THEN EngineShape ELSE c.shape["in"][1]

\* IExecutionContext::getTensorShape, ICudaEngine::getTensorShape:
\* Dims{-1, {}} for a name that is no I/O tensor.
NativeGetTensorShape(c, name) ==
    IF name \notin TensorNames THEN [nbDims |-> -1, d |-> <<>>]
    ELSE [nbDims |-> Len(NativeResolved(c, name)), d |-> NativeResolved(c, name)]

NativeEngineGetTensorShape(name) ==
    IF name \notin TensorNames THEN [nbDims |-> -1, d |-> <<>>]
    ELSE [nbDims |-> Len(EngineShape), d |-> EngineShape]

RECURSIVE Product(_, _)
Product(s, from) == IF from > Len(s) THEN 1 ELSE s[from] * Product(s, from + 1)

\* IExecutionContext::getTensorStrides: row-major strides of the resolved
\* shape, -1 placeholders while an extent is unresolved.
NativeGetTensorStrides(c, name) ==
    IF name \notin TensorNames THEN [nbDims |-> -1, d |-> <<>>]
    ELSE LET s == NativeResolved(c, name)
         IN [nbDims |-> Len(s),
             d |-> [i \in 1 .. Len(s) |-> IF HasDynamic(s) THEN -1 ELSE Product(s, i + 1)]]

\* IExecutionContext::allInputDimensionsSpecified.
NativeAllInputDimensionsSpecified(c) == \A n \in InputNames : c.shape[n] # Unset

\* IExecutionContext::setTensorAddress / setInputTensorAddress / getTensorAddress.
NativeSetTensorAddress(c, name, address) ==
    LET ok == name \in TensorNames
    IN [ret |-> ok, cfg |-> IF ok THEN [c EXCEPT !.addr[name] = address] ELSE c]

NativeSetInputTensorAddress(c, name, address) ==
    LET ok == name \in InputNames
    IN [ret |-> ok, cfg |-> IF ok THEN [c EXCEPT !.addr[name] = address] ELSE c]

NativeGetTensorAddress(c, name) ==
    IF name \in TensorNames THEN c.addr[name] ELSE Null

\* IExecutionContext::enqueueV3.  What the caller has to have done before the
\* call: every input shape specified, every I/O tensor bound to an address,
\* device memory attached.
NativeEnqueuePrecondition(c) ==
    /\ NativeAllInputDimensionsSpecified(c)
    /\ \A t \in TensorNames : c.addr[t] # Null
    /\ c.deviceMemory

\* The results enqueueV3 can give.  With the precondition met the launch either
\* goes onto the stream and true comes back, or it fails and nothing is queued.
\* With the precondition unmet the library's behaviour is not fixed: it may
\* refuse, or launch with the shapes and addresses the context holds, and the
\* value it returns is not tied to which of the two it did.  queued is the
\* number of jobs put on the stream.
NativeEnqueueOutcomes(c) ==
    IF NativeEnqueuePrecondition(c)
    THEN {[ret |-> TRUE, queued |-> 1], [ret |-> FALSE, queued |-> 0]}
    ELSE [ret : BOOLEAN, queued : {0, 1}]

\* The call changes no setting of the context.
NativeEnqueueV3(c, stream, outcome) ==
    [ret |-> outcome.ret, cfg |-> c, queued |-> outcome.queued]

\* IExecutionContext::setOptimizationProfileAsync: rejected outside the
\* engine's profiles; switching may clear the input shapes (reset).
NativeSetOptimizationProfileAsync(c, profile, reset) ==
    LET ok == profile \in EngineProfiles
    IN [ret |-> ok,
        cfg |-> IF ~ok THEN c
                ELSE IF reset /\ profile # c.profile
                THEN [c EXCEPT !.profile = profile,
                               !.shape = [n \in InputNames |-> Unset]]
                ELSE [c EXCEPT !.profile = profile]]

\* ------------------------------------------------------------------ ExecutionContext
Contexts == AliveOf("context")
Addresses == 0 .. MaxAddr
Streams == 0 .. MaxStream

\* Mutant: every adapter forwards to one shared native context.
context_Shared(a) ==
    adapters[CHOOSE b \in Contexts : \A o \in Contexts : b <= o].ptr

\* The adapter's member context_ (engine_, runtime_): the native object it owns.
context_(a) == adapters[a].ptr

SetCfg(a, c) == [cfg EXCEPT ![context_(a)] = c]

\* ExecutionContext::set_input_shape(name, dims).  A slice longer than Dims::d
\* makes the loop write past the array: the call either goes on with the
\* Dims as written, or the process is aborted (smash).
SetInputShape(a, name, dims, smash) ==
    /\ ~crashed
    /\ a \in Contexts
    /\ smash => \E i \in WrittenIndices(dims) : i >= MAX_DIMS
    /\ LET r == NativeSetInputShape(cfg[context_(a)], name, ToDims(dims))
       IN /\ cfg' = IF smash THEN cfg ELSE SetCfg(a, r.cfg)
          /\ accepted' = IF ~smash /\ r.ret THEN [accepted EXCEPT ![a][name] = Some(dims)]
                         ELSE accepted
          /\ crashed' = smash
          /\ last' = [op |-> "set_input_shape", a |-> a, name |-> name,
                      len |-> Len(dims), nbDims |-> ToDims(dims).nbDims,
                      held |-> Len(ToDims(dims).d), written |-> WrittenIndices(dims),
                      aborted |-> smash, ret |-> ~smash /\ r.ret]
    /\ UNCHANGED <<objs, adapters>>
    /\ UnchangedLogger

\* The body shared by CudaEngine::get_tensor_shape,
\* ExecutionContext::get_tensor_shape and ExecutionContext::get_tensor_strides:
\* reserve(nbDims), then the copy loop.
DimsQuery(op, a, name, D) ==
    /\ ~crashed
    /\ crashed' = ~ReserveReturns(D.nbDims)
    /\ last' = [op |-> op, a |-> a, name |-> name, native |-> D,
                aborted |-> ~ReserveReturns(D.nbDims),
                ret |-> IF ReserveReturns(D.nbDims) THEN FromDims(D) ELSE <<>>]
    /\ UNCHANGED <<objs, adapters, cfg, accepted>>
    /\ UnchangedLogger

GetTensorShape(a, name) ==
    /\ a \in Contexts
    /\ DimsQuery("get_tensor_shape", a, name, NativeGetTensorShape(cfg[context_(a)], name))

GetTensorStrides(a, name) ==
    /\ a \in Contexts
    /\ DimsQuery("get_tensor_strides", a, name,
                 NativeGetTensorStrides(cfg[context_(a)], name))

EngineGetTensorShape(en, name) ==
    /\ en \in AliveOf("engine")
    /\ DimsQuery("engine_get_tensor_shape", en, name, NativeEngineGetTensorShape(name))

\* A call that forwards to one native call and returns its result.
Forward(a, call, r) ==
    /\ ~crashed
    /\ a \in Contexts
    /\ cfg' = SetCfg(a, r.cfg)
    /\ last' = call @@ [a |-> a, ret |-> r.ret]
    /\ UNCHANGED <<objs, adapters, accepted, crashed>>
    /\ UnchangedLogger

SetTensorAddress(a, name, address) ==
    Forward(a, [op |-> "set_tensor_address", name |-> name],
            NativeSetTensorAddress(cfg[context_(a)], name, address))

SetInputTensorAddress(a, name, address) ==
    Forward(a, [op |-> "set_input_tensor_address", name |-> name],
            NativeSetInputTensorAddress(cfg[context_(a)], name, address))

GetTensorAddress(a, name) ==
    Forward(a, [op |-> "get_tensor_address", name |-> name],
            [ret |-> NativeGetTensorAddress(cfg[context_(a)], name),
             cfg |-> cfg[context_(a)]])

AllInputDimensionsSpecified(a) ==
    Forward(a, [op |-> "all_input_dimensions_specified"],
            [ret |-> NativeAllInputDimensionsSpecified(cfg[context_(a)]),
             cfg |-> cfg[context_(a)]])

\* Mutant: the bindings are cleared once the work is handed over.
enqueue_v3_ClearsBindings(nat) ==
    [nat EXCEPT !.cfg.addr = [t \in TensorNames |-> Null]]

\* ExecutionContext::enqueue_v3: return context_->enqueueV3(stream), nothing
\* else: no look at all_input_dimensions_specified() or at the bindings before
\* the call, no change to what the native call returned after it.
enqueue_v3(nat) == nat

EnqueueV3(a, stream, outcome) ==
    /\ ~crashed
    /\ a \in Contexts
    /\ outcome \in NativeEnqueueOutcomes(cfg[context_(a)])
    /\ LET r == enqueue_v3(NativeEnqueueV3(cfg[context_(a)], stream, outcome))
       IN /\ cfg' = SetCfg(a, r.cfg)
          /\ last' = [op |-> "enqueue_v3", a |-> a, stream |-> stream,
                      before |-> cfg[context_(a)],
                      specified |-> NativeAllInputDimensionsSpecified(cfg[context_(a)]),
                      ret |-> r.ret, queued |-> r.queued]
    /\ UNCHANGED <<objs, adapters, accepted, crashed>>
    /\ UnchangedLogger

\* The state after create_logger, create_runtime, deserialize and two
\* create_execution_context calls (the first without device memory when
\* withMemory is FALSE).
InitEngine(withMemory) ==
    /\ InitLogger
    /\ objs = <<[kind |-> "logger", parent |-> Null, alive |-> TRUE],
                [kind |-> "runtime", parent |-> 1, alive |-> TRUE],
                [kind |-> "engine", parent |-> 2, alive |-> TRUE],
                [kind |-> "context", parent |-> 3, alive |-> TRUE],
                [kind |-> "context", parent |-> 3, alive |-> TRUE]>>
    /\ adapters = MakeAdapter("logger", 1) \o MakeAdapter("runtime", 2)
                  \o MakeAdapter("engine", 3) \o MakeAdapter("context", 4)
                  \o MakeAdapter("context", 5)
    /\ cfg = [c \in {4, 5} |-> NativeNewContext(c = 5 \/ withMemory)]
    /\ accepted = [a \in {4, 5} |-> [n \in InputNames |-> Unset]]
    /\ crashed = FALSE
    /\ last = NoCall

\* ExecutionContext setters that return nothing: the native setter is called
\* and the setting is whatever it leaves.
Setter(a, op, c) ==
    Forward(a, [op |-> op], [ret |-> TRUE, cfg |-> c])

Getter(a, op, value) ==
    Forward(a, [op |-> op], [ret |-> value, cfg |-> cfg[context_(a)]])

SetDebugSync(a, sync) ==
    Setter(a, "set_debug_sync", [cfg[context_(a)] EXCEPT !.debugSync = sync])
GetDebugSync(a) ==
    Getter(a, "get_debug_sync", cfg[context_(a)].debugSync)

CtxNames == {"", "ctx"}
SetName(a, name) ==
    Setter(a, "set_name", [cfg[context_(a)] EXCEPT !.name = name])
GetName(a) ==
    Getter(a, "get_name", cfg[context_(a)].name)

SetEnqueueEmitsProfile(a, emits) ==
    Setter(a, "set_enqueue_emits_profile", [cfg[context_(a)] EXCEPT !.emitsProfile = emits])
GetEnqueueEmitsProfile(a) ==
    Getter(a, "get_enqueue_emits_profile", cfg[context_(a)].emitsProfile)

SetPersistentCacheLimit(a, limit) ==
    Setter(a, "set_persistent_cache_limit", [cfg[context_(a)] EXCEPT !.cacheLimit = limit])
GetPersistentCacheLimit(a) ==
    Getter(a, "get_persistent_cache_limit", cfg[context_(a)].cacheLimit)

\* set_device_memory(memory): the context has device memory once the address
\* given is not null.
SetDeviceMemory(a, memory) ==
    Setter(a, "set_device_memory", [cfg[context_(a)] EXCEPT !.deviceMemory = (memory # Null)])

SetOptimizationProfileAsync(a, profile, stream, reset) ==
    Forward(a, [op |-> "set_optimization_profile_async"],
            NativeSetOptimizationProfileAsync(cfg[context_(a)], profile, reset))
GetOptimizationProfile(a) ==
    Getter(a, "get_optimization_profile", cfg[context_(a)].profile)

\* The context adapter created first.
FirstContext == {a \in Contexts : \A b \in Contexts : a <= b}

\* Dims slices of the input's rank and last extent: in and out of the profile.
RankDims == {d \in DimsInputs : Len(d) = Len(EngineShape) /\ d[2] = EngineShape[2]}

\* Shape marshalling on one context: set_input_shape with slices of every
\* length, and the three Dims queries.
InitShape == InitEngine(TRUE)

NextShape ==
    \/ \E a \in FirstContext, name \in NameInputs, dims \in DimsInputs, smash \in BOOLEAN :
          SetInputShape(a, name, dims, smash)
    \/ \E a \in FirstContext, name \in NameInputs : GetTensorShape(a, name)
    \/ \E a \in FirstContext, name \in NameInputs : GetTensorStrides(a, name)
    \/ \E en \in DOMAIN adapters, name \in NameInputs : EngineGetTensorShape(en, name)
    \/ \E a \in FirstContext : AllInputDimensionsSpecified(a)

SpecShape == InitShape /\ [][NextShape]_vars

\* Two contexts of one engine, configured independently.
InitCtx == InitEngine(TRUE)

NextCtx ==
    \/ \E a \in Contexts, name \in NameInputs, dims \in RankDims :
          SetInputShape(a, name, dims, FALSE)
    \/ \E a \in Contexts, name \in NameInputs : GetTensorShape(a, name)
    \/ \E a \in Contexts, name \in NameInputs, address \in Addresses :
          SetTensorAddress(a, name, address)
    \/ \E a \in Contexts, name \in NameInputs, address \in Addresses :
          SetInputTensorAddress(a, name, address)
    \/ \E a \in Contexts, name \in NameInputs : GetTensorAddress(a, name)

SpecCtx == InitCtx /\ [][NextCtx]_vars

\* One context, created without device memory, through every setting and enqueue.
InitCfg == InitEngine(FALSE)
\* Profile indices a caller can pass: the engine's and one on each side.
ProfileInputs == {-1, 0, 1, 2}

NextCfg ==
    \/ \E a \in FirstContext, name \in TensorNames, dims \in RankDims :
          SetInputShape(a, name, dims, FALSE)
    \/ \E a \in FirstContext, name \in TensorNames, address \in Addresses :
          SetTensorAddress(a, name, address)
    \/ \E a \in FirstContext, name \in TensorNames, address \in Addresses :
          SetInputTensorAddress(a, name, address)
    \/ \E a \in FirstContext : AllInputDimensionsSpecified(a)
    \/ \E a \in FirstContext, stream \in Streams,
          outcome \in [ret : BOOLEAN, queued : {0, 1}] :
          EnqueueV3(a, stream, outcome)
    \/ \E a \in FirstContext, sync \in BOOLEAN : SetDebugSync(a, sync)
    \/ \E a \in FirstContext : GetDebugSync(a)
    \/ \E a \in FirstContext, name \in CtxNames : SetName(a, name)
    \/ \E a \in FirstContext : GetName(a)
    \/ \E a \in FirstContext, emits \in BOOLEAN : SetEnqueueEmitsProfile(a, emits)
    \/ \E a \in FirstContext : GetEnqueueEmitsProfile(a)
    \/ \E a \in FirstContext, limit \in 0 .. MaxLimit : SetPersistentCacheLimit(a, limit)
    \/ \E a \in FirstContext : GetPersistentCacheLimit(a)
    \/ \E a \in FirstContext, memory \in Addresses : SetDeviceMemory(a, memory)
    \/ \E a \in FirstContext, profile \in ProfileInputs, stream \in Streams, reset \in BOOLEAN :
          SetOptimizationProfileAsync(a, profile, stream, reset)
    \/ \E a \in FirstContext : GetOptimizationProfile(a)

SpecCfg == InitCfg /\ [][NextCfg]_vars

\* ------------------------------------------------------------------ properties
\* Severity s is at least as severe as severity l
\* (internal-error > error > warning > info > verbose).
AtLeastAsSevere(s, l) == s <= l

\* C1: on a context with all inputs specified, get_tensor_shape(name) returns
\* exactly the dims of the last set_input_shape(name, dims) that returned true,
\* same length and same extents in order.
C1_RoundTrip ==
    (/\ last.op = "get_tensor_shape"
     /\ ~last.aborted
     /\ last.name \in InputNames
     /\ accepted[last.a][last.name] # Unset
     /\ NativeAllInputDimensionsSpecified(cfg[context_(last.a)]))
    => last.ret = accepted[last.a][last.name][1]

C1_Witness ==
    /\ last.op = "get_tensor_shape"
    /\ last.name = "in"
    /\ accepted[last.a]["in"] = Some(<<2, 2>>)
    /\ last.ret = <<2, 2>>

\* C2: no native object is destroyed while an object created from it is alive
\* (Logger, then Runtime, then Engine, then ExecutionContext).
C2_ReverseDestructionOrder ==
    \A i \in DOMAIN objs :
        (objs[i].alive /\ objs[i].parent # Null) => objs[objs[i].parent].alive

\* C3: once set_level(L) was called with a defined severity, a message logged at
\* a defined severity S reaches the sink exactly when S is at least as severe as L.
C3_SeverityFilter ==
    (/\ last.op = "log"
     /\ last.filter # Unset
     /\ last.severity \in Severities)
    => (last.emitted <=> AtLeastAsSevere(last.severity, last.filter[1]))

C3_Witness ==
    /\ last.op = "log"
    /\ last.filter = Some(kWARNING)
    /\ last.severity = kERROR
    /\ last.emitted
    /\ Len(sink) = 1

FactoryOps ==
    {"create_runtime", "deserialize", "create_execution_context",
     "create_execution_context_without_device_memory"}

C5_FactoryResult ==
    /\ last.op \in FactoryOps =>
          /\ (last.ret = Null) <=> (last.native = Null)
          /\ last.native = Null => Len(adapters) = last.before
          /\ last.native # Null =>
                /\ Len(adapters) = last.before + 1
                /\ last.ret = Len(adapters)
                /\ adapters[last.ret].ptr = last.native
                /\ adapters[last.ret].alive
          /\ (last.op = "deserialize" /\ last.arg = "corrupt") => last.ret = Null
    /\ \A a, b \in DOMAIN adapters : a # b => adapters[a].ptr # adapters[b].ptr

C5_Witness ==
    /\ last.op = "deserialize"
    /\ last.arg = "corrupt"
    /\ last.ret = Null
    /\ Len(adapters) = last.before
    /\ \E a \in DOMAIN adapters : adapters[a].kind = "engine"

\* C6: a set_tensor_address / set_input_tensor_address / set_input_shape call
\* on one context leaves the address and the shape every other context reports
\* for every tensor name as they were.
MutatorOps == {"set_tensor_address", "set_input_tensor_address", "set_input_shape"}

ContextView(b) ==
    [n \in NameInputs |->
        [address |-> NativeGetTensorAddress(cfg[context_(b)], n),
         shape |-> NativeGetTensorShape(cfg[context_(b)], n)]]

C6_OtherContextUnchanged ==
    [][\A b \in Contexts :
          (last'.op \in MutatorOps /\ last'.a # b) => ContextView(b)' = ContextView(b)]_vars

C6_Witness ==
    /\ last.op = "set_tensor_address"
    /\ last.ret
    /\ \E a, b \in Contexts :
          /\ a = last.a /\ b # a
          /\ cfg[context_(a)].addr["in"] = Null
          /\ cfg[context_(b)].addr["in"] # Null
          /\ accepted[a]["in"] # Unset
          /\ accepted[b]["in"] # Unset
          /\ accepted[a]["in"] # accepted[b]["in"]

\* C7: set_level with a severity outside the five defined ones leaves the
\* global level as it was and the call returns; with a defined severity L the
\* level becomes the one that passes exactly the messages at least as severe
\* as L, whichever Logger instance made the call.
C7_SetLevel ==
    last.op = "set_level" =>
        /\ ~crashed
        /\ IF last.severity \in Severities
           THEN \A s \in Severities :
                   SpdShouldLog(LogLevelOf(s), level) <=> AtLeastAsSevere(s, last.severity)
           ELSE level = last.before

C7_Witness ==
    /\ last.op = "set_level"
    /\ last.severity \notin Severities
    /\ last.logger = NumLoggers
    /\ level = SpdErr
    /\ filter = Some(kERROR)

\* C8: after an enqueue_v3 call, whatever it returned, the context's
\* addresses, input shapes, profile, debug-sync and emits-profile flags,
\* persistent-cache limit and name are what they were before the call.
C8_EnqueueKeepsConfiguration ==
    last.op = "enqueue_v3" => cfg[context_(last.a)] = last.before

C8_Witness ==
    /\ last.op = "enqueue_v3"
    /\ last.ret
    /\ NativeEnqueuePrecondition(last.before)
    /\ cfg[context_(last.a)].debugSync
    /\ ~cfg[context_(last.a)].emitsProfile
    /\ cfg[context_(last.a)].name = "ctx"
    /\ cfg[context_(last.a)].cacheLimit = MaxLimit
    /\ cfg[context_(last.a)].profile = 1

\* C9: whatever the length of the slice, set_input_shape writes d[i] only at
\* indices below the capacity of Dims::d, and the Dims it hands over holds as
\* many extents as its nbDims says.
C9_WritesWithinCapacity ==
    last.op = "set_input_shape" =>
        /\ \A i \in last.written : i < MAX_DIMS
        /\ last.held = last.nbDims

\* C10: the three Dims queries return the native d[0 .. nbDims-1] in order, and
\* the empty sequence, returning normally, when nbDims is 0 or -1.
DimsQueryOps == {"get_tensor_shape", "get_tensor_strides", "engine_get_tensor_shape"}

C10_DimsQueryReturns ==
    last.op \in DimsQueryOps =>
        /\ ~last.aborted
        /\ Len(last.ret) = Max(last.native.nbDims, 0)
        /\ \A i \in 1 .. Len(last.ret) : last.ret[i] = last.native.d[i]
====
